---- MODULE Spec2Model ----
(***************************************************************************)
(* Model of the Teen-Pregnancy Django application: the view callables of   *)
(* core/views.py acting on the store (Resource, ForumPost, Comment, User)  *)
(* and on the session, and the URL resolution of core/urls.py and          *)
(* teenpregnancy/urls.py.                                                  *)
(*                                                                         *)
(* Text is a sequence of one-character strings so that the icontains       *)
(* lookup can be computed.  A QuerySet is a sequence in id order.          *)
(***************************************************************************)
EXTENDS Integers, Sequences, FiniteSets, TLC

VARIABLES resources, forum_posts, comments, users, session, req, response, resolved

vars == <<resources, forum_posts, comments, users, session, req, response, resolved>>

(***************************************************************************)
(* Bounds of the model.                                                    *)
(***************************************************************************)
MaxResources == 1
MaxPosts == 1
MaxComments == 1
MaxUsers == 1

(***************************************************************************)
(* Inputs a client can send.                                               *)
(***************************************************************************)
Empty == <<>>
Nu == <<"N", "u">>
nu == <<"n", "u">>
Xy == <<"x", "y">>

Titles == {Empty, Nu, Xy}
Contents == {Empty, nu}
Bodies == {"", "hello"}
\* <<username, password>> pairs posted to signup and to login
SignUps == {<<"", "">>, <<"alice", "">>, <<"alice", "pw">>, <<"bob", "pw">>}
Credentials ==
    {<<"", "">>, <<"alice", "pw">>, <<"alice", "bad">>, <<"bob", "pw">>, <<"bob", "">>}
Queries == {Empty, <<"n">>, <<"N", "U">>, <<"z">>, <<"n", "u", "n">>}
QParams == {<<>>} \cup {<<s>> : s \in Queries}
Methods == {"GET", "POST"}
Ids == 1..(IF MaxResources > MaxPosts THEN MaxResources ELSE MaxPosts) + 1

Anonymous == "AnonymousUser"

Range(s) == {s[i] : i \in DOMAIN s}

(***************************************************************************)
(* Requests and responses.                                                 *)
(***************************************************************************)
NoReq ==
    [view |-> "", method |-> "", id |-> 0, GET |-> <<>>, title |-> Empty,
     content |-> Empty, body |-> "", username |-> "", password |-> ""]

EmptyContext ==
    [resources |-> <<>>, forum_posts |-> <<>>, comments |-> <<>>, object |-> <<>>,
     query |-> Empty]

NoResponse ==
    [status |-> 0, kind |-> "none", template |-> "", to |-> "", arg |-> 0,
     form |-> "none", exc |-> "", context |-> EmptyContext]

\* django.shortcuts.render: a 200 response of a template with a context.
render(template, form, context) ==
    [NoResponse EXCEPT !.status = 200, !.kind = "render", !.template = template,
                       !.form = form, !.context = context]

\* django.shortcuts.redirect: a 302 response to a named view.
redirect(to, arg) ==
    [NoResponse EXCEPT !.status = 302, !.kind = "redirect", !.to = to, !.arg = arg]

\* An exception that leaves the view: Django answers with a 500 response.
fault(exc) ==
    [NoResponse EXCEPT !.status = 500, !.kind = "fault", !.exc = exc]

(***************************************************************************)
(* The ORM and the forms.                                                  *)
(***************************************************************************)
\* Model.objects.get(id=...): the rows with that id (DoesNotExist when none).
get(table, id) == SelectSeq(table, LAMBDA row : row.id = id)

Fold(c) ==
    CASE c = "N" -> "n"
      [] c = "U" -> "u"
      [] c = "X" -> "x"
      [] c = "Y" -> "y"
      [] OTHER -> c

\* field__icontains=query: query occurs in the text, letter case ignored.
icontains(text, query) ==
    \E i \in 0..(Len(text) - Len(query)) :
        \A j \in 1..Len(query) : Fold(text[i + j]) = Fold(query[j])

\* ResourceForm / ForumPostForm: title and content are required.
EntryFormIsValid(title, content) == title # Empty /\ content # Empty

\* CommentForm: the comment text is required.
CommentFormIsValid(body) == body # ""

\* LoginForm: username and password are required.
LoginFormIsValid(username, password) == username # "" /\ password # ""

\* SignUpForm: username and password are required, the username is not taken.
SignUpFormIsValid(username, password) ==
    /\ username # ""
    /\ password # ""
    /\ \A u \in users : u.username # username

\* django.contrib.auth.authenticate: the user with these credentials, or none.
authenticate(username, password) ==
    {u \in users : u.username = username /\ u.password = password}

\* Comment.user is a ForeignKey to User: it accepts only a stored User.
IsUserInstance(u) == \E row \in users : row.username = u

(***************************************************************************)
(* URL resolution.  A path is the sequence of its segments ("resource/1/"  *)
(* is <<"resource", "1">>); a route is a sequence of literal segments and  *)
(* converters.                                                             *)
(***************************************************************************)
Segments ==
    {"resource", "forum", "submit", "login", "logout", "search", "signup",
     "admin", "nope", "1", "12", "007", "abc", "-1"}

Paths == {<<>>} \cup {<<a>> : a \in Segments} \cup (Segments \X Segments)

\* IntConverter: regex [0-9]+, to_python int(value)
IntConverter == ("1" :> 1) @@ ("12" :> 12) @@ ("007" :> 7)

lit(text) == [kind |-> "lit", text |-> text]
int(name) == [kind |-> "int", text |-> name]

\* core/urls.py urlpatterns, in registration order
CorePatterns ==
    << [route |-> <<>>, view |-> "views.home", name |-> "home"],
       [route |-> <<lit("resource"), int("resource_id")>>,
        view |-> "views.resource_detail", name |-> "resource_detail"],
       [route |-> <<lit("forum"), int("post_id")>>,
        view |-> "views.forum_post_detail", name |-> "forum_post_detail"],
       [route |-> <<lit("submit"), lit("resource")>>,
        view |-> "views.submit_resource", name |-> "submit_resource"],
       [route |-> <<lit("submit"), lit("forum")>>,
        view |-> "views.submit_forum_post", name |-> "submit_forum_post"],
       [route |-> <<lit("login")>>, view |-> "auth_views.LoginView", name |-> "login"],
       [route |-> <<lit("logout")>>, view |-> "auth_views.LogoutView",
        name |-> "logout"],
       [route |-> <<lit("login")>>, view |-> "auth_views.LoginView(login.html)",
        name |-> "login"],
       [route |-> <<lit("search")>>, view |-> "views.search", name |-> "search"],
       [route |-> <<lit("signup")>>, view |-> "views.signup", name |-> "signup"],
       [route |-> <<lit("login")>>, view |-> "views.login_view", name |-> "login"],
       [route |-> <<lit("logout")>>, view |-> "views.logout_view", name |-> "logout"] >>

\* teenpregnancy/urls.py urlpatterns: the admin site, then include('core.urls')
RootPatterns ==
    << [prefix |-> <<lit("admin")>>, target |-> "admin.site.urls"],
       [prefix |-> <<>>, target |-> "core.urls"] >>

PartMatches(part, segment) ==
    IF part.kind = "lit" THEN segment = part.text ELSE segment \in DOMAIN IntConverter

\* RoutePattern.match of an endpoint: the whole path matches the route.
Matches(route, path) ==
    /\ Len(route) = Len(path)
    /\ \A i \in 1..Len(route) : PartMatches(route[i], path[i])

\* RoutePattern.match of an include: the route matches a prefix of the path.
MatchesPrefix(route, path) ==
    /\ Len(route) <= Len(path)
    /\ \A i \in 1..Len(route) : PartMatches(route[i], path[i])

\* the captured keyword arguments: the converted value of the int segment
Kwargs(route, path) ==
    {IntConverter[path[i]] : i \in {j \in 1..Len(route) : route[j].kind = "int"}}

NoMatch ==
    [tried |-> FALSE, path |-> <<>>, found |-> FALSE, view |-> "", index |-> 0,
     kwargs |-> {}]

RECURSIVE LastMatch(_, _, _)
LastMatch(patterns, path, i) ==
    IF i < 1 THEN 0
    ELSE IF Matches(patterns[i].route, path) THEN i
    ELSE LastMatch(patterns, path, i - 1)

RECURSIVE FirstMatch(_, _, _)
\* URLResolver.resolve: the patterns are tried in order, the first match returns.
FirstMatch(patterns, path, i) ==
    IF i > Len(patterns) THEN 0
    ELSE IF Matches(patterns[i].route, path) THEN i
    ELSE FirstMatch(patterns, path, i + 1)

ResolveLast(path) ==
    LET i == LastMatch(CorePatterns, path, Len(CorePatterns)) IN
    IF MatchesPrefix(RootPatterns[1].prefix, path)
    THEN [NoMatch EXCEPT !.tried = TRUE, !.path = path, !.found = TRUE,
                         !.view = RootPatterns[1].target]
    ELSE IF i = 0
    THEN [NoMatch EXCEPT !.tried = TRUE, !.path = path]
    ELSE [NoMatch EXCEPT !.tried = TRUE, !.path = path, !.found = TRUE,
                         !.view = CorePatterns[i].view, !.index = i,
                         !.kwargs = Kwargs(CorePatterns[i].route, path)]

Resolve(path) ==
    LET i == FirstMatch(CorePatterns, path, 1) IN
    IF MatchesPrefix(RootPatterns[1].prefix, path)
    THEN [NoMatch EXCEPT !.tried = TRUE, !.path = path, !.found = TRUE,
                         !.view = RootPatterns[1].target]
    ELSE IF i = 0
    THEN [NoMatch EXCEPT !.tried = TRUE, !.path = path]
    ELSE [NoMatch EXCEPT !.tried = TRUE, !.path = path, !.found = TRUE,
                         !.view = CorePatterns[i].view, !.index = i,
                         !.kwargs = Kwargs(CorePatterns[i].route, path)]

\* Resolver404 becomes the 404 response.
not_found == [NoResponse EXCEPT !.status = 404, !.kind = "not_found"]

Init ==
    /\ resources = <<>>
    /\ forum_posts = <<>>
    /\ comments = <<>>
    /\ users = {}
    /\ session = Anonymous
    /\ req = NoReq
    /\ response = NoResponse
    /\ resolved = NoMatch

frame_store == UNCHANGED <<resources, forum_posts, comments, users>>

(***************************************************************************)
(* The views.  views.py defines forum_post_detail, signup, login_view,     *)
(* logout_view and search more than once; the module attribute is the last *)
(* definition, which is the one modelled.                                  *)
(***************************************************************************)
home(method) ==
    /\ req' = [NoReq EXCEPT !.view = "home", !.method = method]
    /\ response' = render("home.html", "none",
                          [EmptyContext EXCEPT !.resources = resources,
                                               !.forum_posts = forum_posts])
    /\ frame_store
    /\ UNCHANGED <<session, resolved>>

resource_detail(method, resource_id) ==
    LET resource == get(resources, resource_id) IN
    /\ req' = [NoReq EXCEPT !.view = "resource_detail", !.method = method,
                            !.id = resource_id]
    /\ response' = IF resource = <<>>
                   THEN fault("Resource.DoesNotExist")
                   ELSE render("resource_detail.html", "none",
                               [EmptyContext EXCEPT !.object = resource])
    /\ frame_store
    /\ UNCHANGED <<session, resolved>>

\* comment_form.save(commit=False); .user = request.user; .post = post; .save()
save_commentOtherPost(post, user, body) ==
    Append(comments, [id |-> Len(comments) + 1, post |-> post.id + 1,
                      user |-> user, body |-> body])

save_comment(post, user, body) ==
    Append(comments, [id |-> Len(comments) + 1, post |-> post.id,
                      user |-> user, body |-> body])

forum_post_detail(method, post_id, body) ==
    LET found == get(forum_posts, post_id)
        post == found[1]
        post_comments == SelectSeq(comments, LAMBDA c : c.post = post_id)
        context == [EmptyContext EXCEPT !.object = found,
                                        !.comments = post_comments]
        saves == /\ found # <<>>
                 /\ method = "POST"
                 /\ CommentFormIsValid(body)
                 /\ IsUserInstance(session)
    IN
    /\ method = "GET" => body = ""
    /\ saves => Len(comments) < MaxComments
    /\ req' = [NoReq EXCEPT !.view = "forum_post_detail", !.method = method,
                            !.id = post_id, !.body = body]
    /\ IF found = <<>>
       THEN /\ response' = fault("ForumPost.DoesNotExist")
            /\ UNCHANGED comments
       ELSE IF method = "POST"
       THEN IF CommentFormIsValid(body)
            THEN IF IsUserInstance(session)
                 THEN /\ comments' = save_comment(post, session, body)
                      /\ response' = redirect("forum_post_detail", post.id)
                 ELSE /\ response' = fault("ValueError")
                      /\ UNCHANGED comments
            ELSE /\ response' = render("forum_post_detail.html", "bound", context)
                 /\ UNCHANGED comments
       ELSE /\ response' = render("forum_post_detail.html", "unbound", context)
            /\ UNCHANGED comments
    /\ UNCHANGED <<resources, forum_posts, users, session, resolved>>

submit_resourceSavesInvalid(method, title, content) ==
    /\ method = "GET" => (title = Empty /\ content = Empty)
    /\ method = "POST" => Len(resources) < MaxResources
    /\ req' = [NoReq EXCEPT !.view = "submit_resource", !.method = method,
                            !.title = title, !.content = content]
    /\ IF method = "POST"
       THEN /\ resources' = Append(resources, [id |-> Len(resources) + 1,
                                               title |-> title, content |-> content])
            /\ response' = redirect("home", 0)
       ELSE /\ response' = render("submit_resource.html", "unbound", EmptyContext)
            /\ UNCHANGED resources
    /\ UNCHANGED <<forum_posts, comments, users, session, resolved>>

submit_resource(method, title, content) ==
    LET saves == method = "POST" /\ EntryFormIsValid(title, content) IN
    /\ method = "GET" => (title = Empty /\ content = Empty)
    /\ saves => Len(resources) < MaxResources
    /\ req' = [NoReq EXCEPT !.view = "submit_resource", !.method = method,
                            !.title = title, !.content = content]
    /\ IF method = "POST"
       THEN IF EntryFormIsValid(title, content)
            THEN /\ resources' = Append(resources, [id |-> Len(resources) + 1,
                                                    title |-> title,
                                                    content |-> content])
                 /\ response' = redirect("home", 0)
            ELSE /\ response' = render("submit_resource.html", "bound", EmptyContext)
                 /\ UNCHANGED resources
       ELSE /\ response' = render("submit_resource.html", "unbound", EmptyContext)
            /\ UNCHANGED resources
    /\ UNCHANGED <<forum_posts, comments, users, session, resolved>>

submit_forum_postOverwrites(method, title, content) ==
    LET saves == method = "POST" /\ EntryFormIsValid(title, content) IN
    /\ method = "GET" => (title = Empty /\ content = Empty)
    /\ req' = [NoReq EXCEPT !.view = "submit_forum_post", !.method = method,
                            !.title = title, !.content = content]
    /\ IF saves
       THEN /\ forum_posts' = <<[id |-> 1, title |-> title, content |-> content]>>
            /\ response' = redirect("home", 0)
       ELSE /\ response' = render("submit_forum_post.html",
                                  IF method = "POST" THEN "bound" ELSE "unbound",
                                  EmptyContext)
            /\ UNCHANGED forum_posts
    /\ UNCHANGED <<resources, comments, users, session, resolved>>

submit_forum_post(method, title, content) ==
    LET saves == method = "POST" /\ EntryFormIsValid(title, content) IN
    /\ method = "GET" => (title = Empty /\ content = Empty)
    /\ saves => Len(forum_posts) < MaxPosts
    /\ req' = [NoReq EXCEPT !.view = "submit_forum_post", !.method = method,
                            !.title = title, !.content = content]
    /\ IF method = "POST"
       THEN IF EntryFormIsValid(title, content)
            THEN /\ forum_posts' = Append(forum_posts, [id |-> Len(forum_posts) + 1,
                                                        title |-> title,
                                                        content |-> content])
                 /\ response' = redirect("home", 0)
            ELSE /\ response' = render("submit_forum_post.html", "bound", EmptyContext)
                 /\ UNCHANGED forum_posts
       ELSE /\ response' = render("submit_forum_post.html", "unbound", EmptyContext)
            /\ UNCHANGED forum_posts
    /\ UNCHANGED <<resources, comments, users, session, resolved>>

signupLogsIn(method, username, password) ==
    LET saves == method = "POST" /\ SignUpFormIsValid(username, password) IN
    /\ method = "GET" => (username = "" /\ password = "")
    /\ saves => Cardinality(users) < MaxUsers
    /\ req' = [NoReq EXCEPT !.view = "signup", !.method = method,
                            !.username = username, !.password = password]
    /\ IF saves
       THEN /\ users' = users \cup {[username |-> username, password |-> password]}
            /\ session' = username
            /\ response' = redirect("login", 0)
       ELSE /\ response' = render("signup.html",
                                  IF method = "POST" THEN "bound" ELSE "unbound",
                                  EmptyContext)
            /\ UNCHANGED <<users, session>>
    /\ UNCHANGED <<resources, forum_posts, comments, resolved>>

signup(method, username, password) ==
    LET saves == method = "POST" /\ SignUpFormIsValid(username, password) IN
    /\ method = "GET" => (username = "" /\ password = "")
    /\ saves => Cardinality(users) < MaxUsers
    /\ req' = [NoReq EXCEPT !.view = "signup", !.method = method,
                            !.username = username, !.password = password]
    /\ IF method = "POST"
       THEN IF SignUpFormIsValid(username, password)
            THEN /\ users' = users \cup {[username |-> username,
                                          password |-> password]}
                 /\ response' = redirect("login", 0)
            ELSE /\ response' = render("signup.html", "bound", EmptyContext)
                 /\ UNCHANGED users
       ELSE /\ response' = render("signup.html", "unbound", EmptyContext)
            /\ UNCHANGED users
    /\ UNCHANGED <<resources, forum_posts, comments, session, resolved>>

login_viewSkipsAuthenticate(method, username, password) ==
    /\ method = "GET" => (username = "" /\ password = "")
    /\ req' = [NoReq EXCEPT !.view = "login_view", !.method = method,
                            !.username = username, !.password = password]
    /\ IF method = "POST" /\ LoginFormIsValid(username, password)
       THEN /\ session' = username
            /\ response' = redirect("home", 0)
       ELSE /\ response' = render("login.html",
                                  IF method = "POST" THEN "bound" ELSE "unbound",
                                  EmptyContext)
            /\ UNCHANGED session
    /\ frame_store
    /\ UNCHANGED resolved

login_view(method, username, password) ==
    LET user == authenticate(username, password) IN
    /\ method = "GET" => (username = "" /\ password = "")
    /\ req' = [NoReq EXCEPT !.view = "login_view", !.method = method,
                            !.username = username, !.password = password]
    /\ IF method = "POST"
       THEN IF LoginFormIsValid(username, password) /\ user # {}
            THEN /\ session' = (CHOOSE u \in user : TRUE).username
                 /\ response' = redirect("home", 0)
            ELSE /\ response' = render("login.html", "bound", EmptyContext)
                 /\ UNCHANGED session
       ELSE /\ response' = render("login.html", "unbound", EmptyContext)
            /\ UNCHANGED session
    /\ frame_store
    /\ UNCHANGED resolved

logout_viewOnPost(method) ==
    /\ req' = [NoReq EXCEPT !.view = "logout_view", !.method = method]
    /\ session' = IF method = "POST" THEN Anonymous ELSE session
    /\ response' = redirect("home", 0)
    /\ frame_store
    /\ UNCHANGED resolved

logout_view(method) ==
    /\ req' = [NoReq EXCEPT !.view = "logout_view", !.method = method]
    /\ session' = Anonymous
    /\ response' = redirect("home", 0)
    /\ frame_store
    /\ UNCHANGED resolved

\* QueryDict.get(key, default): the last value sent for the key.
QueryDictGet(values, default) ==
    IF values = <<>> THEN default ELSE values[Len(values)]

\* the filter of the first definition of search (title or content)
filterTitleOrContent(table, query) ==
    SelectSeq(table, LAMBDA row : icontains(row.title, query)
                                  \/ icontains(row.content, query))

\* Model.objects.filter(title__icontains=query)
filter(table, query) ==
    SelectSeq(table, LAMBDA row : icontains(row.title, query))

search(method, q) ==
    LET query == QueryDictGet(q, Empty) IN
    /\ req' = [NoReq EXCEPT !.view = "search", !.method = method, !.GET = q]
    /\ response' = render("search_results.html", "none",
                          [EmptyContext EXCEPT
                              !.resources = filter(resources, query),
                              !.forum_posts = filter(forum_posts, query),
                              !.query = query])
    /\ frame_store
    /\ UNCHANGED <<session, resolved>>

\* The URL resolver handles the path of a request.
resolve(path) ==
    /\ resolved' = Resolve(path)
    /\ response' = IF resolved'.found THEN NoResponse ELSE not_found
    /\ frame_store
    /\ UNCHANGED <<session, req>>

Next ==
    \/ home("GET")
    \/ \E id \in Ids : resource_detail("GET", id)
    \/ \E m \in Methods, id \in Ids, b \in Bodies : forum_post_detail(m, id, b)
    \/ \E m \in Methods, t \in Titles, c \in Contents : submit_resource(m, t, c)
    \/ \E m \in Methods, t \in Titles, c \in Contents : submit_forum_post(m, t, c)
    \/ \E m \in Methods, c \in SignUps : signup(m, c[1], c[2])
    \/ \E m \in Methods, c \in Credentials : login_view(m, c[1], c[2])
    \/ \E m \in Methods : logout_view(m)
    \/ \E q \in QParams : search("GET", q)

Spec == Init /\ [][Next]_vars

NextRouter == \E path \in Paths : resolve(path)

SpecRouter == Init /\ [][NextRouter]_vars

(***************************************************************************)
(* Properties.                                                             *)
(***************************************************************************)
Stored(table, id) == \E row \in Range(table) : row.id = id

IsPrefix(s, t) == Len(s) <= Len(t) /\ \A i \in DOMAIN s : t[i] = s[i]

\* C1: a request to resource_detail(id) or forum_post_detail(id) returns the
\* entity with that id when one is stored, and a controlled 404 response when
\* none is stored; a missing id never produces a 500-class fault.
C1_DetailOrNotFound ==
    /\ req.view = "resource_detail" =>
          IF Stored(resources, req.id)
          THEN /\ response.kind = "render"
               /\ \A row \in Range(response.context.object) : row.id = req.id
          ELSE response.status = 404
    /\ (req.view = "forum_post_detail" /\ req.method = "GET") =>
          IF Stored(forum_posts, req.id)
          THEN /\ response.kind = "render"
               /\ \A row \in Range(response.context.object) : row.id = req.id
          ELSE response.status = 404

C3_AnonymousCommentRejected ==
    (/\ req.view = "forum_post_detail"
     /\ req.method = "POST"
     /\ session = Anonymous
     /\ Stored(forum_posts, req.id)) =>
        /\ response.kind # "fault"
        /\ \A c \in Range(comments) : c.user # Anonymous
        /\ req.body # "" =>
              \/ response.kind = "redirect" /\ response.to = "login"
              \/ response.status \in 400..499

\* C4: submit_resource and submit_forum_post: a POST with non-empty title and
\* content persists exactly one new entity of the handler's type and redirects
\* to home; a POST that fails validation persists nothing and re-renders the
\* submission form with the bound form; a GET persists nothing and renders an
\* empty form.
C4_Submission ==
    [][ /\ req'.view = "submit_resource" =>
              /\ UNCHANGED <<forum_posts, comments, users>>
              /\ IF req'.method = "POST" /\ req'.title # Empty /\ req'.content # Empty
                 THEN /\ Len(resources') = Len(resources) + 1
                      /\ IsPrefix(resources, resources')
                      /\ resources'[Len(resources')].title = req'.title
                      /\ resources'[Len(resources')].content = req'.content
                      /\ ~Stored(resources, resources'[Len(resources')].id)
                      /\ response'.kind = "redirect"
                      /\ response'.to = "home"
                 ELSE /\ resources' = resources
                      /\ response'.kind = "render"
                      /\ response'.template = "submit_resource.html"
                      /\ response'.form =
                            IF req'.method = "POST" THEN "bound" ELSE "unbound"
        /\ req'.view = "submit_forum_post" =>
              /\ UNCHANGED <<resources, comments, users>>
              /\ IF req'.method = "POST" /\ req'.title # Empty /\ req'.content # Empty
                 THEN /\ Len(forum_posts') = Len(forum_posts) + 1
                      /\ IsPrefix(forum_posts, forum_posts')
                      /\ forum_posts'[Len(forum_posts')].title = req'.title
                      /\ forum_posts'[Len(forum_posts')].content = req'.content
                      /\ ~Stored(forum_posts, forum_posts'[Len(forum_posts')].id)
                      /\ response'.kind = "redirect"
                      /\ response'.to = "home"
                 ELSE /\ forum_posts' = forum_posts
                      /\ response'.kind = "render"
                      /\ response'.template = "submit_forum_post.html"
                      /\ response'.form =
                            IF req'.method = "POST" THEN "bound" ELSE "unbound"
      ]_vars

C4_Witness ==
    /\ req.view = "submit_resource"
    /\ req.method = "POST"
    /\ response.kind = "redirect"
    /\ \E row \in Range(resources) :
          row.title = req.title /\ row.content = req.content

FoldSeq(s) == [i \in DOMAIN s |-> Fold(s[i])]

\* query is a substring of text, letter case ignored
ContainsIgnoringCase(text, query) ==
    \/ query = Empty
    \/ \E a \in 1..Len(text) : \E b \in a..Len(text) :
          FoldSeq(SubSeq(text, a, b)) = FoldSeq(query)

SentQuery == IF req.GET = <<>> THEN Empty ELSE req.GET[Len(req.GET)]

\* C5: for every q (the empty string and an absent q included) the search
\* handler that /search/ resolves to returns, without fault, exactly the
\* Resources and exactly the ForumPosts whose title contains q as a
\* case-insensitive substring; a match in the content alone is not returned.
C5_SearchByTitle ==
    /\ Resolve(<<"search">>).view = "views.search"
    /\ req.view = "search" =>
          /\ response.kind = "render"
          /\ Range(response.context.resources) =
                {row \in Range(resources) : ContainsIgnoringCase(row.title, SentQuery)}
          /\ Range(response.context.forum_posts) =
                {row \in Range(forum_posts) :
                    ContainsIgnoringCase(row.title, SentQuery)}

C5_Witness ==
    /\ req.view = "search"
    /\ SentQuery = <<"n">>
    /\ \E row \in Range(resources) \cup Range(forum_posts) :
          /\ ~ContainsIgnoringCase(row.title, SentQuery)
          /\ ContainsIgnoringCase(row.content, SentQuery)
    /\ Range(response.context.resources) \cup Range(response.context.forum_posts) # {}

Accepts(username, password) ==
    /\ username # ""
    /\ password # ""
    /\ \E u \in users : u.username = username /\ u.password = password

C7_Logout ==
    [][ req'.view = "logout_view" =>
          /\ session' = Anonymous
          /\ response'.status = 302
          /\ response'.to = "home"
          /\ UNCHANGED <<resources, forum_posts, comments, users>>
          /\ req.view = "logout_view" => (session' = session /\ response' = response)
      ]_vars

C7_Witness ==
    /\ req.view = "logout_view"
    /\ req.method = "GET"
    /\ session = Anonymous
    /\ users # {}

OtherViews ==
    {"home", "resource_detail", "forum_post_detail", "submit_resource",
     "submit_forum_post", "search", "signup"}

\* C8: the session becomes authenticated only in a login step with accepted
\* credentials and becomes Anonymous only in a logout step; every other
\* handler leaves the session unchanged, and a successful signup creates a
\* User and redirects to login without authenticating the session.
C8_SessionFrame ==
    [][ /\ (session = Anonymous /\ session' # Anonymous) =>
              /\ req'.view = "login_view"
              /\ req'.method = "POST"
              /\ Accepts(req'.username, req'.password)
        /\ (session # Anonymous /\ session' = Anonymous) => req'.view = "logout_view"
        /\ req'.view \in OtherViews => session' = session
        /\ (req'.view = "signup" /\ req'.method = "POST"
              /\ req'.username # "" /\ req'.password # ""
              /\ \A u \in users : u.username # req'.username) =>
              /\ users' = users \cup {[username |-> req'.username,
                                       password |-> req'.password]}
              /\ Cardinality(users') = Cardinality(users) + 1
              /\ response'.kind = "redirect"
              /\ response'.to = "login"
              /\ session' = session
      ]_vars

C8_Witness ==
    /\ req.view = "signup"
    /\ response.kind = "redirect"
    /\ \E u \in users : u.username = req.username
    /\ session = Anonymous

MatchingPatterns(path) ==
    {i \in DOMAIN CorePatterns : Matches(CorePatterns[i].route, path)}

\* C9: a path resolves to the first pattern, in registration order, that
\* matches it, and an unmatched path is answered NotFound; /login/ and /logout/
\* always resolve to their first registration, never to views.login_view or
\* views.logout_view.
C9_FirstRegistrationWins ==
    (resolved.tried /\ ~MatchesPrefix(<<lit("admin")>>, resolved.path)) =>
        /\ IF MatchingPatterns(resolved.path) = {}
           THEN ~resolved.found /\ response.status = 404
           ELSE /\ resolved.found
                /\ resolved.index \in MatchingPatterns(resolved.path)
                /\ \A i \in MatchingPatterns(resolved.path) : resolved.index <= i
                /\ resolved.view = CorePatterns[resolved.index].view
        /\ resolved.path = <<"login">> => resolved.view = "auth_views.LoginView"
        /\ resolved.path = <<"logout">> => resolved.view = "auth_views.LogoutView"
        /\ resolved.view \notin {"views.login_view", "views.logout_view",
                                 "auth_views.LoginView(login.html)"}

C9_Witness ==
    /\ resolved.tried
    /\ resolved.path = <<"login">>
    /\ resolved.found
    /\ Cardinality(MatchingPatterns(resolved.path)) = 3

StoreSize ==
    Len(resources) + Len(forum_posts) + Len(comments) + Cardinality(users)

====
